---- MODULE Spec2Model ----
(***************************************************************************)
(* A model of POC-processing.py: the aggregation of points of contact      *)
(* (add_to_dict), the cleaning of their names (clean_name), the sort       *)
(* policies (custom_sort_key, sort_dataframe) and the driver (main).       *)
(*                                                                         *)
(* A Python str is a sequence of characters, each character a one-token    *)
(* string; the accented letters are the tokens "e_acute" and "E_ACUTE".    *)
(* A missing cell (NaN, what pandas reads from an empty CSV field) is the  *)
(* value NaN.                                                              *)
(***************************************************************************)
EXTENDS Integers, Sequences, FiniteSets, TLC

(***************************************************************************)
(* Characters: Python's str methods and the comparison of str.             *)
(***************************************************************************)
LowerLetters ==
    <<"a","b","c","d","e","f","g","h","i","j","k","l","m",
      "n","o","p","q","r","s","t","u","v","w","x","y","z","e_acute">>

UpperLetters ==
    <<"A","B","C","D","E","F","G","H","I","J","K","L","M",
      "N","O","P","Q","R","S","T","U","V","W","X","Y","Z","E_ACUTE">>

Digits == {"0","1","2","3","4","5","6","7","8","9"}

Quotes == {"\"", "'"}

Punctuation == {" ", "(", ")", ",", "-", ".", "/", ":"} \cup Quotes

LetterIndex == 1..Len(LowerLetters)

LowerSet == {LowerLetters[i] : i \in LetterIndex}

UpperSet == {UpperLetters[i] : i \in LetterIndex}

Alphabet == LowerSet \cup UpperSet \cup Digits \cup Punctuation

\* str.upper() and str.lower() of one character.
ToUpper ==
    [c \in Alphabet |->
        IF c \in LowerSet
        THEN UpperLetters[CHOOSE i \in LetterIndex : LowerLetters[i] = c]
        ELSE c]

ToLower ==
    [c \in Alphabet |->
        IF c \in UpperSet
        THEN LowerLetters[CHOOSE i \in LetterIndex : UpperLetters[i] = c]
        ELSE c]

\* ord(c): the code point, which is what Python compares two str by.
Ord ==
    [c \in Alphabet |->
        IF c = "e_acute" THEN 233
        ELSE IF c = "E_ACUTE" THEN 201
        ELSE IF c \in LowerSet
        THEN 96 + (CHOOSE i \in LetterIndex : LowerLetters[i] = c)
        ELSE IF c \in UpperSet
        THEN 64 + (CHOOSE i \in LetterIndex : UpperLetters[i] = c)
        ELSE IF c \in Digits
        THEN 48 + (CHOOSE d \in 0..9 : <<"0","1","2","3","4","5","6","7","8","9">>[d + 1] = c)
        ELSE CASE c = " "  -> 32
               [] c = "\"" -> 34
               [] c = "'"  -> 39
               [] c = "("  -> 40
               [] c = ")"  -> 41
               [] c = ","  -> 44
               [] c = "-"  -> 45
               [] c = "."  -> 46
               [] c = "/"  -> 47
               [] c = ":"  -> 58]

CasedSet == LowerSet \cup UpperSet

IsCased(c) == c \in CasedSet

IsSpace(c) == c = " "

IsDigit(c) == c \in Digits

Drop(s, n) == IF n >= Len(s) THEN <<>> ELSE SubSeq(s, n + 1, Len(s))

\* a < b for two str: the first differing code point decides, a proper prefix
\* is smaller.
RECURSIVE StrLess(_, _)
StrLess(a, b) ==
    IF b = <<>> THEN FALSE
    ELSE IF a = <<>> THEN TRUE
    ELSE IF Ord[a[1]] # Ord[b[1]] THEN Ord[a[1]] < Ord[b[1]]
    ELSE StrLess(Tail(a), Tail(b))

\* str.title(): a cased character that follows an uncased one (or starts the
\* string) is upper-cased, every other cased character lower-cased.
Title(s) ==
    [i \in 1..Len(s) |->
        IF IsCased(s[i])
        THEN IF i > 1 /\ IsCased(s[i - 1]) THEN ToLower[s[i]] ELSE ToUpper[s[i]]
        ELSE s[i]]

\* len(s.split()): the number of maximal runs of non-space characters.
WordCount(s) ==
    Cardinality({i \in 1..Len(s) :
                    ~IsSpace(s[i]) /\ (i = 1 \/ IsSpace(s[i - 1]))})

RECURSIVE LStrip(_)
LStrip(s) == IF s # <<>> /\ IsSpace(s[1]) THEN LStrip(Tail(s)) ELSE s

RECURSIVE RStrip(_)
RStrip(s) ==
    IF s # <<>> /\ IsSpace(s[Len(s)]) THEN RStrip(SubSeq(s, 1, Len(s) - 1)) ELSE s

\* str.strip()
Strip(s) == RStrip(LStrip(s))

StartsWith(s, p) == Len(s) >= Len(p) /\ SubSeq(s, 1, Len(p)) = p

RECURSIVE DropDigits(_)
DropDigits(s) == IF s # <<>> /\ IsDigit(s[1]) THEN DropDigits(Tail(s)) ELSE s

RECURSIVE TakeDigits(_)
TakeDigits(s) ==
    IF s # <<>> /\ IsDigit(s[1]) THEN <<s[1]>> \o TakeDigits(Tail(s)) ELSE <<>>

TelephoneMarker == <<"T","e","l","e","p","h","o","n","e",":">>

\* re.match(r'^\s*Telephone:', name)
MatchesTelephone(name) == StartsWith(LStrip(name), TelephoneMarker)

HasDigit(s) == \E i \in 1..Len(s) : IsDigit(s[i])

\* re.findall(r'\d+', name)[0]: the first run of digits (name has a digit).
FirstDigitRun(s) ==
    LET i == CHOOSE k \in 1..Len(s) :
                 IsDigit(s[k]) /\ \A j \in 1..(k - 1) : ~IsDigit(s[j])
    IN  TakeDigits(Drop(s, i - 1))

NotQuote(c) == c \notin Quotes

\* re.sub(r'[\"\']', '', name)
RemoveQuotes(s) == SelectSeq(s, NotQuote)

\* re.sub(r'^\d+\s*', '', s)
RemoveLeadingNumber(s) ==
    IF s # <<>> /\ IsDigit(s[1]) THEN LStrip(DropDigits(s)) ELSE s

NoiseToken == <<"A","1","C">>

\* re.sub(r'A1C', '', s): every non-overlapping occurrence, left to right.
RECURSIVE RemoveNoise(_)
RemoveNoise(s) ==
    IF s = <<>> THEN <<>>
    ELSE IF StartsWith(s, NoiseToken) THEN RemoveNoise(Drop(s, Len(NoiseToken)))
    ELSE <<s[1]>> \o RemoveNoise(Tail(s))

\* re.sub(r'\s+', ' ', s)
RECURSIVE CollapseSpaces(_)
CollapseSpaces(s) ==
    IF s = <<>> THEN <<>>
    ELSE IF IsSpace(s[1]) THEN <<" ">> \o CollapseSpaces(LStrip(s))
    ELSE <<s[1]>> \o CollapseSpaces(Tail(s))

NA == <<"N","/","A">>


(***************************************************************************)
(* clean_name and custom_sort_key.                                         *)
(***************************************************************************)
\* The names bound at module level when clean_name runs: the imports, the
\* constants, contact_dict and the functions. new_df is a local of main().
ModuleGlobals ==
    {"pd", "csv", "re", "FILE_PATH", "OUTPUT_CSV_PATH", "SORTING_PARAMETER",
     "contact_dict", "add_to_dict", "clean_name", "custom_sort_key",
     "sort_dataframe", "main"}

NoPhone == <<"n","o","n","e">>

Return(v) == [raised |-> "", value |-> v, phone |-> NoPhone]

Raise(e) == [raised |-> e, value |-> <<>>, phone |-> NoPhone]

\* The words a name may have and still be a name (line 61).
MaxNameWords == 4

\* clean_name(name): what it returns or raises, and the phone number it
\* writes into the rows of new_df whose name is `name` (NoPhone: none).
clean_name(name) ==
    IF WordCount(name) > MaxNameWords THEN Return(NA)
    ELSE IF MatchesTelephone(name)
    THEN IF ~HasDigit(name) THEN Raise("IndexError")
         ELSE IF "new_df" \notin ModuleGlobals THEN Raise("NameError")
         ELSE [raised |-> "", value |-> NA, phone |-> FirstDigitRun(name)]
    ELSE Return(Strip(Title(CollapseSpaces(
                    RemoveNoise(RemoveLeadingNumber(RemoveQuotes(name)))))))

\* re.sub(r'^\([^)]*\)\s*', '', name)
RemoveParenPrefix(s) ==
    IF s # <<>> /\ s[1] = "(" /\ \E k \in 2..Len(s) : s[k] = ")"
    THEN LET k == CHOOSE k \in 2..Len(s) :
                      s[k] = ")" /\ \A j \in 2..(k - 1) : s[j] # ")"
         IN  LStrip(Drop(s, k))
    ELSE s

Honorifics == {<<"D","r",".">>, <<"L","t",".">>}

\* re.sub(r'^(Dr\.|Lt\.)\s*', '', name)
RemoveHonorific(s) ==
    IF \E h \in Honorifics : StartsWith(s, h) THEN LStrip(Drop(s, 3)) ELSE s

NASortKey == <<"z","z","z">>

custom_sort_key(name) ==
    IF name = NA THEN NASortKey
    ELSE RemoveHonorific(RemoveParenPrefix(name))


(***************************************************************************)
(* The input table and the state of one run of main().                     *)
(***************************************************************************)
\* A missing cell: float('nan'), for which pd.isna is true and bool() true.
NaN == <<"NaN">>

IsNa(v) == v = NaN

\* bool(v) of a cell: false for the empty string alone.
Truthy(v) == v # <<>>

VARIABLES
    rows,               \* df: the rows read from FILE_PATH
    has_secondary,      \* 'secondary_contact_full_name' in df.columns
    SORTING_PARAMETER,  \* the sort policy
    idx,                \* the next row of df.iterrows()
    contact_dict,       \* the aggregation map, in insertion order
    new_df,             \* the frame built from contact_dict
    sorted_df,          \* the frame written to OUTPUT_CSV_PATH
    pc,                 \* where main() is
    raised,             \* the exception that ended main(), "" if none
    run,                \* which run of the program this is
    first_output        \* what the first run wrote

vars == <<rows, has_secondary, SORTING_PARAMETER, idx, contact_dict, new_df,
          sorted_df, pc, raised, run, first_output>>

Keys(d) == {d[i].key : i \in 1..Len(d)}

\* Line 40: the record of a name's first sighting.
NewRecord(formatted_name, contact_info, opportunity_info) ==
    [key |-> formatted_name,
     email |-> contact_info[1],
     phone_number |-> contact_info[2],
     state |-> contact_info[3],
     city |-> contact_info[4],
     agency |-> contact_info[5],
     opportunity_count |-> 1,
     associated_departments |-> {opportunity_info[1]},
     contract_types |-> {opportunity_info[2]}]

\* add_to_dict were it to overwrite the contact fields of an existing record.
add_to_dict_overwriting(d, contact_name, contact_info, opportunity_info) ==
    IF Truthy(contact_name) /\ ~IsNa(contact_name)
    THEN LET formatted_name == Title(contact_name)
         IN  IF formatted_name \notin Keys(d)
             THEN Append(d, NewRecord(formatted_name, contact_info, opportunity_info))
             ELSE [i \in 1..Len(d) |->
                     IF d[i].key = formatted_name
                     THEN [NewRecord(formatted_name, contact_info, opportunity_info) EXCEPT
                             !.opportunity_count = d[i].opportunity_count + 1,
                             !.associated_departments =
                                 d[i].associated_departments \cup {opportunity_info[1]},
                             !.contract_types = d[i].contract_types \cup {opportunity_info[2]}]
                     ELSE d[i]]
    ELSE d

\* add_to_dict were it to leave the departments of an existing record alone.
add_to_dict_forgetting(d, contact_name, contact_info, opportunity_info) ==
    IF Truthy(contact_name) /\ ~IsNa(contact_name)
    THEN LET formatted_name == Title(contact_name)
         IN  IF formatted_name \notin Keys(d)
             THEN Append(d, NewRecord(formatted_name, contact_info, opportunity_info))
             ELSE [i \in 1..Len(d) |->
                     IF d[i].key = formatted_name
                     THEN [d[i] EXCEPT
                             !.opportunity_count = @ + 1,
                             !.contract_types = @ \cup {opportunity_info[2]}]
                     ELSE d[i]]
    ELSE d

\* add_to_dict were it to test only the truth of the name, not pd.isna.
add_to_dict_unguarded(d, contact_name, contact_info, opportunity_info) ==
    IF Truthy(contact_name)
    THEN LET formatted_name == Title(contact_name)
         IN  IF formatted_name \notin Keys(d)
             THEN Append(d, NewRecord(formatted_name, contact_info, opportunity_info))
             ELSE [i \in 1..Len(d) |->
                     IF d[i].key = formatted_name
                     THEN [d[i] EXCEPT
                             !.opportunity_count = @ + 1,
                             !.associated_departments = @ \cup {opportunity_info[1]},
                             !.contract_types = @ \cup {opportunity_info[2]}]
                     ELSE d[i]]
    ELSE d

\* add_to_dict were it to key the map by the name's quote-free form.
add_to_dict_unquoted(d, contact_name, contact_info, opportunity_info) ==
    IF Truthy(contact_name) /\ ~IsNa(contact_name)
    THEN LET formatted_name == RemoveQuotes(Title(contact_name))
         IN  IF formatted_name \notin Keys(d)
             THEN Append(d, NewRecord(formatted_name, contact_info, opportunity_info))
             ELSE [i \in 1..Len(d) |->
                     IF d[i].key = formatted_name
                     THEN [d[i] EXCEPT
                             !.opportunity_count = @ + 1,
                             !.associated_departments = @ \cup {opportunity_info[1]},
                             !.contract_types = @ \cup {opportunity_info[2]}]
                     ELSE d[i]]
    ELSE d

\* add_to_dict(contact_name, contact_info, opportunity_info) on the map d:
\* the map it leaves.
add_to_dict(d, contact_name, contact_info, opportunity_info) ==
    IF Truthy(contact_name) /\ ~IsNa(contact_name)
    THEN LET formatted_name == Title(contact_name)
         IN  IF formatted_name \notin Keys(d)
             THEN Append(d, NewRecord(formatted_name, contact_info, opportunity_info))
             ELSE [i \in 1..Len(d) |->
                     IF d[i].key = formatted_name
                     THEN [d[i] EXCEPT
                             !.opportunity_count = @ + 1,
                             !.associated_departments = @ \cup {opportunity_info[1]},
                             !.contract_types = @ \cup {opportunity_info[2]}]
                     ELSE d[i]]
    ELSE d

opportunity_info(row) == <<row.sub_tier, row.title>>

primary_contact_info(row) ==
    <<row.primary_contact_email, row.primary_contact_phone,
      row.State, row.City, row.agency>>

secondary_contact_info(row) ==
    <<row.secondary_contact_email, row.secondary_contact_phone,
      row.State, row.City, row.agency>>

\* Line 135: whether the row's secondary contact is passed to add_to_dict.
SecondaryPresent(row) ==
    /\ has_secondary
    /\ Truthy(row.secondary_contact_full_name)
    /\ ~IsNa(row.secondary_contact_full_name)

\* The body of the loop over df.iterrows() (lines 119-144), for one row.
ProcessRow ==
    /\ pc = "rows"
    /\ idx <= Len(rows)
    /\ LET row == rows[idx]
           d1 == add_to_dict(contact_dict, row.primary_contact_full_name,
                             primary_contact_info(row), opportunity_info(row))
       IN  contact_dict' =
               IF SecondaryPresent(row)
               THEN add_to_dict(d1, row.secondary_contact_full_name,
                                secondary_contact_info(row), opportunity_info(row))
               ELSE d1
    /\ idx' = idx + 1
    /\ UNCHANGED <<rows, has_secondary, SORTING_PARAMETER, new_df, sorted_df,
                   pc, raised, run, first_output>>

\* The orders in which iterating a Python set may yield its elements: the order
\* follows the hashes of the str, which are salted anew in every process.
Orderings(S) ==
    {o \in [1..Cardinality(S) -> S] :
        \A i, j \in 1..Cardinality(S) : i # j => o[i] # o[j]}

Separator == <<",", " ">>

\* ', '.join(parts)
RECURSIVE Join(_)
Join(parts) ==
    IF Len(parts) = 0 THEN <<>>
    ELSE IF Len(parts) = 1 THEN parts[1]
    ELSE parts[1] \o Separator \o Join(Tail(parts))

JoinSet(S) == {Join(o) : o \in Orderings(S)}

RECURSIVE JoinedDicts(_)
JoinedDicts(d) ==
    IF Len(d) = 0 THEN {<<>>}
    ELSE {<<[d[1] EXCEPT !.associated_departments = deps, !.contract_types = types]>>
              \o rest :
            deps \in JoinSet(d[1].associated_departments),
            types \in JoinSet(d[1].contract_types),
            rest \in JoinedDicts(Tail(d))}

\* Lines 146-149, after the last row: the sets become joined strings.
Finalize ==
    /\ pc = "rows"
    /\ idx > Len(rows)
    /\ contact_dict' \in JoinedDicts(contact_dict)
    /\ pc' = "frame"
    /\ UNCHANGED <<rows, has_secondary, SORTING_PARAMETER, idx, new_df, sorted_df,
                   raised, run, first_output>>

\* Lines 152-158: one row per key, in the map's order, the key title-cased again.
FrameOf(d) ==
    [i \in 1..Len(d) |->
        [name |-> Title(d[i].key),
         email |-> d[i].email,
         phone_number |-> d[i].phone_number,
         state |-> d[i].state,
         city |-> d[i].city,
         agency |-> d[i].agency,
         opportunity_count |-> d[i].opportunity_count,
         associated_departments |-> d[i].associated_departments,
         contract_types |-> d[i].contract_types]]

\* The rows of df for which clean_name raises.
Raising(df) == {i \in 1..Len(df) : clean_name(df[i].name).raised # ""}

\* new_df['name'].apply(clean_name) over the rows 1..upto of df: the phone
\* numbers clean_name has written (line 66), the names as they were.
PhonesWritten(df, upto) ==
    [j \in 1..Len(df) |->
        IF \E i \in 1..upto :
               df[i].name = df[j].name /\ clean_name(df[i].name).phone # NoPhone
        THEN [df[j] EXCEPT !.phone_number = clean_name(df[j].name).phone]
        ELSE df[j]]

Cleaned(df) ==
    LET w == PhonesWritten(df, Len(df))
    IN  [j \in 1..Len(df) |-> [w[j] EXCEPT !.name = clean_name(df[j].name).value]]

\* Lines 152-159: the frame and the cleaning of its names, which ends the run
\* at the first name for which clean_name raises.
BuildFrame ==
    /\ pc = "frame"
    /\ LET df == FrameOf(contact_dict)
       IN  \/ /\ Raising(df) = {}
              /\ new_df' = Cleaned(df)
              /\ pc' = "sort"
              /\ raised' = raised
           \/ /\ Raising(df) # {}
              /\ LET first == CHOOSE i \in Raising(df) : \A j \in Raising(df) : i <= j
                 IN  /\ new_df' = PhonesWritten(df, first - 1)
                     /\ raised' = clean_name(df[first].name).raised
              /\ pc' = "failed"
    /\ UNCHANGED <<rows, has_secondary, SORTING_PARAMETER, idx, contact_dict,
                   sorted_df, run, first_output>>


(***************************************************************************)
(* sort_dataframe.                                                         *)
(***************************************************************************)
Perms(n) == {p \in [1..n -> 1..n] : \A i, j \in 1..n : i # j => p[i] # p[j]}

\* by='name', key=lambda x: x.map(custom_sort_key)
NameBefore(a, b) == StrLess(custom_sort_key(a.name), custom_sort_key(b.name))

\* The 'city' policy were it by=['state', 'city'].
StateFirstBefore(a, b) ==
    \/ StrLess(a.state, b.state)
    \/ a.state = b.state /\ StrLess(a.city, b.city)

\* by=['city', 'state']
CityBefore(a, b) ==
    \/ StrLess(a.city, b.city)
    \/ a.city = b.city /\ StrLess(a.state, b.state)

\* by='associated_departments'
DepartmentBefore(a, b) ==
    StrLess(a.associated_departments, b.associated_departments)

\* by='opportunity_count', ascending = False
OpportunityBefore(a, b) == a.opportunity_count > b.opportunity_count

\* The strict order of the rows under a sort policy.
Before(sort_by, a, b) ==
    CASE sort_by = "name" -> NameBefore(a, b)
      [] sort_by = "city" -> CityBefore(a, b)
      [] sort_by = "department" -> DepartmentBefore(a, b)
      [] sort_by = "opportunity" -> OpportunityBefore(a, b)

\* df.sort_values under a sort policy: the frames it may return. A stable
\* sort keeps rows of equal key in the order of df; the default kind,
\* 'quicksort', promises no order among them.
SortResults(df, sort_by, stable) ==
    {[i \in 1..Len(df) |-> df[p[i]]] : p \in
        {q \in Perms(Len(df)) :
            \A i, j \in 1..Len(df) :
                i < j => /\ ~Before(sort_by, df[q[j]], df[q[i]])
                         /\ (stable /\ ~Before(sort_by, df[q[i]], df[q[j]])) => q[i] < q[j]}}

\* Whether sort_values keeps rows of equal key in their order: with one
\* column it runs the default kind='quicksort', which is not stable; with a
\* list of columns it sorts lexicographically and is stable.
SingleColumnStable == FALSE

sort_dataframe(df, sort_by) ==
    CASE sort_by = "name" -> SortResults(df, "name", SingleColumnStable)
      [] sort_by = "city" -> SortResults(df, "city", TRUE)
      [] sort_by = "department" -> SortResults(df, "department", SingleColumnStable)
      [] sort_by = "opportunity" -> SortResults(df, "opportunity", SingleColumnStable)
      [] OTHER -> {df}

\* Lines 160-165: the frame is sorted and written.
Sort ==
    /\ pc = "sort"
    /\ sorted_df' \in sort_dataframe(new_df, SORTING_PARAMETER)
    /\ pc' = "done"
    /\ UNCHANGED <<rows, has_secondary, SORTING_PARAMETER, idx, contact_dict,
                   new_df, raised, run, first_output>>

\* The program is run again on the same file: a new process, whose
\* contact_dict starts empty (line 22).
Rerun ==
    /\ pc = "done"
    /\ run = 1
    /\ first_output' = sorted_df
    /\ run' = 2
    /\ idx' = 1
    /\ contact_dict' = <<>>
    /\ new_df' = <<>>
    /\ sorted_df' = <<>>
    /\ pc' = "rows"
    /\ UNCHANGED <<rows, has_secondary, SORTING_PARAMETER, raised>>

(***************************************************************************)
(* The inputs.                                                             *)
(***************************************************************************)
MaxRows == 2

MaxFrame == 2

SortPolicies == {"name", "city", "department", "opportunity", "unsorted"}

JoLi == <<"j","o"," ","l","i">>

JoLiUpper == <<"J","O"," ","L","I">>

JoLiQuoted == <<"'","j","o"," ","l","i","'">>

TelephoneNote == <<"t","e","l","e","p","h","o","n","e",":"," ","5","5","-","1","2">>

TelephoneLong == <<"t","e","l","e","p","h","o","n","e",":"," ","5"," ","b"," ","c"," ","d">>

Emile == <<"e_acute","m","i","l","e">>

ReserveDrAl == <<"(","r",")"," ","d","r","."," ","a","l">>

DLA == <<"D","L","A">>

GSA == <<"G","S","A">>

Widget == <<"W","i","d","g","e","t">>

Gadget == <<"G","a","d","g","e","t">>

MD == <<"M","D">>

VA == <<"V","A">>

Bowie == <<"B","o","w","i","e">>

Reston == <<"R","e","s","t","o","n">>

\* The contact cells of a row: the primary and secondary e-mail and phone, and
\* the State, City and agency the two contacts share.
CellsMD ==
    [pe |-> "jo@dla", pp |-> <<"1","0","1">>, se |-> "li@dla", sp |-> <<"1","0","2">>,
      State |-> MD, City |-> Bowie, agency |-> "DoD"]

CellsVA ==
    [pe |-> "jo@gsa", pp |-> <<"2","0","1">>, se |-> "li@gsa", sp |-> <<"2","0","2">>,
      State |-> VA, City |-> Reston, agency |-> "GSA"]

MkRow(opp, primary, secondary, c) ==
    [sub_tier |-> opp[1],
     title |-> opp[2],
     primary_contact_full_name |-> primary,
     primary_contact_email |-> c.pe,
     primary_contact_phone |-> c.pp,
     State |-> c.State,
     City |-> c.City,
     agency |-> c.agency,
     secondary_contact_full_name |-> secondary,
     secondary_contact_email |-> c.se,
     secondary_contact_phone |-> c.sp]

\* The rows with an opportunity and its contact cells from Postings, and the
\* names of its two contacts from Primaries and Secondaries.
RowsOf(Postings, Primaries, Secondaries) ==
    {MkRow(o[1], p, s, o[2]) : o \in Postings, p \in Primaries, s \in Secondaries}

PrimaryNames == {JoLi, JoLiQuoted, TelephoneNote, <<>>, NaN}

SecondaryNames == {NaN, <<>>, JoLiUpper}

SpecRows ==
    RowsOf({<<<<DLA, Widget>>, CellsMD>>, <<<<GSA, Gadget>>, CellsVA>>},
           PrimaryNames, SecondaryNames)

RerunRows ==
    RowsOf({<<<<DLA, Widget>>, CellsMD>>, <<<<DLA, Gadget>>, CellsMD>>,
            <<<<GSA, Gadget>>, CellsMD>>},
           {JoLi, JoLiUpper, TelephoneNote}, {NaN})

Tables(Rows) == UNION {[1..n -> Rows] : n \in 0..MaxRows}

InitWith(Rows, Policies) ==
    /\ has_secondary \in BOOLEAN
    /\ rows \in Tables(Rows)
    /\ has_secondary \/ \A i \in 1..Len(rows) : IsNa(rows[i].secondary_contact_full_name)
    /\ SORTING_PARAMETER \in Policies
    /\ idx = 1
    /\ contact_dict = <<>>
    /\ new_df = <<>>
    /\ sorted_df = <<>>
    /\ pc = "rows"
    /\ raised = ""
    /\ run = 1
    /\ first_output = <<>>

\* One run of main() with the sort policy of line 19.
Init == InitWith(SpecRows, {"name"})

Next == ProcessRow \/ Finalize \/ BuildFrame \/ Sort

Spec == Init /\ [][Next]_vars

\* Two runs of the program on the same file, under any sort policy. The rows
\* name one contact, so that no sort has rows of equal key to order, or a
\* telephone note as well.
InitRerun == InitWith(RerunRows, SortPolicies)

NextRerun == ProcessRow \/ Finalize \/ BuildFrame \/ Sort \/ Rerun

SpecRerun == InitRerun /\ [][NextRerun]_vars

\* sort_dataframe on the frames main() can build: one row per key, the name
\* what clean_name makes of the key.
SortNames == {JoLi, Emile, ReserveDrAl, TelephoneLong}

FrameRow(raw, st, ct, n) ==
    [name |-> clean_name(Title(raw)).value,
     email |-> "jo@dla",
     phone_number |-> <<"1","0","1">>,
     state |-> st,
     city |-> ct,
     agency |-> "DoD",
     opportunity_count |-> n,
     associated_departments |-> IF n = 1 THEN DLA ELSE Join(<<DLA, GSA>>),
     contract_types |-> Widget]

SortFrames ==
    UNION {
        {[i \in 1..n |-> FrameRow(raw[i], f[i][1], f[i][2], f[i][3])] :
            raw \in {r \in [1..n -> SortNames] : \A i, j \in 1..n : i # j => r[i] # r[j]},
            f \in [1..n -> {MD, VA} \X {Bowie, Reston} \X {1, 2}]} :
        n \in 0..MaxFrame}

InitSort ==
    /\ new_df \in SortFrames
    /\ SORTING_PARAMETER \in SortPolicies
    /\ pc = "sort"
    /\ rows = <<>>
    /\ has_secondary = FALSE
    /\ idx = 1
    /\ contact_dict = <<>>
    /\ sorted_df = <<>>
    /\ raised = ""
    /\ run = 1
    /\ first_output = <<>>

SpecSort == InitSort /\ [][Sort]_vars


(***************************************************************************)
(* The claims.                                                             *)
(***************************************************************************)
\* A contact slot with no name: the empty string or a missing cell.
Missing(n) == n = <<>> \/ n = NaN

\* The title-cased names of the primary and of the secondary contact of each
\* row of the input, NaN for a slot with no name.
SlotKeys ==
    [r \in 1..Len(rows) |->
        <<IF Missing(rows[r].primary_contact_full_name) THEN NaN
          ELSE Title(rows[r].primary_contact_full_name),
          IF ~has_secondary \/ Missing(rows[r].secondary_contact_full_name) THEN NaN
          ELSE Title(rows[r].secondary_contact_full_name)>>]

\* The rows the loop has processed.
Seen == 1..(idx - 1)

\* The rows processed in which X is the primary or the secondary contact,
\* sk being SlotKeys.
RowsWith(sk, X) == {r \in Seen : sk[r][1] = X \/ sk[r][2] = X}

\* The title-cased names of the contacts of the rows processed.
SeenKeys(sk) == ({sk[r][1] : r \in Seen} \cup {sk[r][2] : r \in Seen}) \ {NaN}

\* C1: opportunity_count(X) is the number of input rows in which X is the
\* primary or the secondary contact, a row counting once.
C1_CountIsRows ==
    LET sk == SlotKeys
    IN  \A i \in 1..Len(contact_dict) :
            contact_dict[i].opportunity_count
                = Cardinality(RowsWith(sk, contact_dict[i].key))

\* The contact_info of the sightings of X in the first n rows, in the order
\* add_to_dict received them, sk being SlotKeys.
RECURSIVE Sightings(_, _, _)
Sightings(sk, X, n) ==
    IF n = 0 THEN <<>>
    ELSE Sightings(sk, X, n - 1)
         \o (IF sk[n][1] = X THEN <<primary_contact_info(rows[n])>> ELSE <<>>)
         \o (IF sk[n][2] = X THEN <<secondary_contact_info(rows[n])>> ELSE <<>>)

ContactFields(e) == <<e.email, e.phone_number, e.state, e.city, e.agency>>

EachOnce(S) ==
    {Join(o) : o \in {q \in [1..Cardinality(S) -> S] :
                        \A v \in S : Cardinality({k \in 1..Cardinality(S) : q[k] = v}) = 1}}

\* C3: a record's associated_departments and contract_types are the distinct
\* departments and titles of the rows that contributed to it: while the rows
\* are read the two sets are exactly those values, and the joined strings of
\* the finalization hold each of them once.
C3_SetsAreContributions ==
    LET sk == SlotKeys
    IN  \A i \in 1..Len(contact_dict) :
            LET e == contact_dict[i]
                contributing == RowsWith(sk, e.key)
                departments == {rows[r].sub_tier : r \in contributing}
                titles == {rows[r].title : r \in contributing}
            IN  IF pc = "rows"
                THEN /\ e.associated_departments = departments
                     /\ e.contract_types = titles
                ELSE /\ e.associated_departments \in EachOnce(departments)
                     /\ e.contract_types \in EachOnce(titles)

C3_Witness ==
    /\ pc = "frame"
    /\ \E i \in 1..Len(contact_dict) :
          LET contributing == RowsWith(SlotKeys, contact_dict[i].key)
          IN  /\ contact_dict[i].opportunity_count >= 3
              /\ Cardinality({rows[r].sub_tier : r \in contributing}) = 2
              /\ Cardinality({rows[r].title : r \in contributing}) = 2

\* The keys of the named contacts of one row.
RowKeys(row) ==
    {Title(n) : n \in {m \in {row.primary_contact_full_name} \cup
                              (IF has_secondary THEN {row.secondary_contact_full_name} ELSE {}) :
                          ~Missing(m)}}

\* C4: a contact slot whose name is empty or missing changes nothing: the row
\* adds the keys of its named contacts and no other, every record of another
\* key stays as it was, a row of two nameless slots leaves the map as it was,
\* and nothing is raised.
C4_MissingNameNoChange ==
    [][(pc = "rows" /\ idx' = idx + 1) =>
          LET named == RowKeys(rows[idx])
          IN  /\ Keys(contact_dict') = Keys(contact_dict) \cup named
              /\ Len(contact_dict') = Cardinality(Keys(contact_dict'))
              /\ \A i \in 1..Len(contact_dict) :
                    contact_dict[i].key \notin named => contact_dict'[i] = contact_dict[i]
              /\ named = {} => contact_dict' = contact_dict
              /\ raised' = ""]_vars

C4_Witness ==
    /\ pc = "rows"
    /\ idx = 3
    /\ Missing(rows[1].primary_contact_full_name)
    /\ has_secondary
    /\ ~Missing(rows[1].secondary_contact_full_name)
    /\ rows[2].primary_contact_full_name = <<>>
    /\ rows[2].secondary_contact_full_name = NaN
    /\ Len(contact_dict) = 1
    /\ contact_dict[1].opportunity_count = 1

\* C5: the map holds one record per title-cased raw name, whatever the names
\* clean to, and the frames built and written have one row per such key.
C5_OneRecordPerTitledName ==
    LET keys == SeenKeys(SlotKeys)
    IN  /\ Keys(contact_dict) = keys
        /\ Len(contact_dict) = Cardinality(keys)
        /\ pc \in {"sort", "done"} => Len(new_df) = Cardinality(keys)
        /\ pc = "done" => Len(sorted_df) = Cardinality(keys)

C5_Witness ==
    /\ pc = "done"
    /\ \E i, j \in 1..Len(sorted_df) : i # j /\ sorted_df[i].name = sorted_df[j].name
    /\ \E i \in 1..Len(sorted_df) : sorted_df[i].opportunity_count >= 2

\* C6: once the names are cleaned nothing has been raised, a record whose name
\* has at most 4 words and starts with "Telephone:" is named "N/A" and has the
\* first run of digits of its name as phone, and every other record keeps its
\* phone, a name of more than 4 words being "N/A".
C6_TelephoneCleaned ==
    pc \in {"sort", "done", "failed"} =>
        /\ raised = ""
        /\ \A i \in 1..Len(contact_dict) :
              LET k == contact_dict[i].key
              IN  IF WordCount(k) > MaxNameWords
                  THEN /\ new_df[i].name = NA
                       /\ new_df[i].phone_number = contact_dict[i].phone_number
                  ELSE IF MatchesTelephone(k)
                  THEN /\ new_df[i].name = NA
                       /\ new_df[i].phone_number = FirstDigitRun(k)
                  ELSE new_df[i].phone_number = contact_dict[i].phone_number

SameRows(a, b) ==
    /\ Len(a) = Len(b)
    /\ \A r \in {a[i] : i \in 1..Len(a)} \cup {b[i] : i \in 1..Len(b)} :
          Cardinality({i \in 1..Len(a) : a[i] = r}) = Cardinality({i \in 1..Len(b) : b[i] = r})

\* C7 as the spec states it: under 'city' the smaller state comes first, and
\* city decides among rows of equal state.
C7_StateThenCity ==
    (pc = "done" /\ SORTING_PARAMETER = "city") =>
        \A i, j \in 1..Len(sorted_df) :
            i < j => /\ ~StrLess(sorted_df[j].state, sorted_df[i].state)
                     /\ sorted_df[i].state = sorted_df[j].state
                            => ~StrLess(sorted_df[j].city, sorted_df[i].city)

\* C7 amended: under 'city' the output is the frame's rows with the smaller
\* city first, state deciding among rows of equal city.
C7_CityThenState ==
    (pc = "done" /\ SORTING_PARAMETER = "city") =>
        /\ SameRows(sorted_df, new_df)
        /\ \A i, j \in 1..Len(sorted_df) :
              i < j => /\ ~StrLess(sorted_df[j].city, sorted_df[i].city)
                       /\ sorted_df[i].city = sorted_df[j].city
                              => ~StrLess(sorted_df[j].state, sorted_df[i].state)

C7_Witness ==
    /\ pc = "done"
    /\ SORTING_PARAMETER = "city"
    /\ Len(sorted_df) = 2
    /\ sorted_df # new_df
    /\ StrLess(sorted_df[1].city, sorted_df[2].city)
    /\ StrLess(sorted_df[2].state, sorted_df[1].state)

IndexIn(df, r) == CHOOSE i \in 1..Len(df) : df[i] = r

\* C8: under 'opportunity' the output is the frame's rows by opportunity_count
\* descending, rows of equal count in the order they had in the frame.
C8_StableDescending ==
    (pc = "done" /\ SORTING_PARAMETER = "opportunity") =>
        /\ SameRows(sorted_df, new_df)
        /\ \A i, j \in 1..Len(sorted_df) :
              i < j =>
                 \/ sorted_df[i].opportunity_count > sorted_df[j].opportunity_count
                 \/ /\ sorted_df[i].opportunity_count = sorted_df[j].opportunity_count
                    /\ IndexIn(new_df, sorted_df[i]) < IndexIn(new_df, sorted_df[j])

\* C9: under 'name' every record named "N/A" comes after every record that is
\* not, and the others are in the order of their names without a leading
\* parenthesized prefix and "Dr."/"Lt.".
C9_NALast ==
    (pc = "done" /\ SORTING_PARAMETER = "name") =>
        \A i, j \in 1..Len(sorted_df) :
            /\ (sorted_df[i].name = NA /\ sorted_df[j].name # NA) => j < i
            /\ (i < j /\ sorted_df[i].name # NA /\ sorted_df[j].name # NA) =>
                  ~StrLess(RemoveHonorific(RemoveParenPrefix(sorted_df[j].name)),
                           RemoveHonorific(RemoveParenPrefix(sorted_df[i].name)))

\* C10: the second run of the program on the same rows, under the same sort
\* policy, writes what the first run wrote.
C10_RerunIdentical ==
    (run = 2 /\ pc = "done") => sorted_df = first_output

====
